---- MODULE Spec2Model ----
(***************************************************************************)
(* The metadynamics notebook (metadynamics/metadynamics.ipynb) as a state  *)
(* machine: the notebook's cells are the operations, the variables the     *)
(* cells bind (process, bounds, configs, colvars) and the background       *)
(* simulation the process object stands for are the state.                 *)
(*                                                                         *)
(* The simulation engine and the orchestration library are not part of     *)
(* the repository.  What the model says about them is what the notebook    *)
(* itself states in its text and comments: the process runs in the         *)
(* background, the collective-variable time series grows while it runs,    *)
(* sampleConfigurations returns configurations inside the bounds, at most  *)
(* the requested number, or (None, None) when the region was not sampled.  *)
(* Where the notebook leaves an outcome open the model takes every         *)
(* outcome the text allows.                                                *)
(*                                                                         *)
(* Angles are in units of half a radian, so the notebook's 0.5, 1.5 and    *)
(* -1.5 radian are 1, 3 and -3.                                            *)
(*                                                                         *)
(* The second part is the last cell of the alchemical set-up notebook      *)
(* (alchemistry/answers/alchemical_setup_solution.ipynb, exercise 5.5.3):  *)
(* a system is minimised, then equilibrated, then handed to the binding    *)
(* free-energy set-up, after the earlier cells that set up free-energy     *)
(* simulations in a work_dir and list directories.  A directory is the     *)
(* sequence of the names on its path.  Each notebook is a specification   *)
(* of its own: Spec for the metadynamics notebook, SpecAlch for the        *)
(* alchemical one.                                                         *)
(***************************************************************************)
EXTENDS Integers, Sequences, FiniteSets, TLC

VARIABLES
    runState,   \* "CONFIGURED", "RUNNING" or "FINISHED"; process.isRunning() is
                \* runState = "RUNNING"
    launch,     \* position in the cell that creates the process
    ntomp,      \* the -ntomp argument of the process, 0 while not set
    time,       \* engine steps completed (process.getTime())
    colvar,     \* the collective-variable time series, one <<phi, psi>> per frame
    nHills,     \* Gaussian hills deposited so far
    bounds,     \* the notebook variable 'bounds'
    configs,    \* the notebook variable 'configs'
    colvars,    \* the notebook variable 'colvars'
    stmt,       \* the statement of exercise 5.5.3 that runs next
    procState,  \* per Gromacs process: "none", "created", "running", "finished"
    procSys,    \* per Gromacs process: the system it holds
    solvated,   \* the notebook variable 'solvated'
    minimised,  \* the notebook variable 'minimised'
    equilibrated, \* the notebook variable 'equilibrated'
    freenrg,    \* the system handed to BSS.FreeEnergy.Binding
    cell,       \* the cell of the alchemical notebook that runs next
    workDirs,   \* the work_dir of every free-energy set-up call made so far
    inspected   \* the directories the "ls" cells have listed so far

mdVars == <<runState, launch, ntomp, time, colvar, nHills, bounds, configs, colvars>>

fsVars == <<cell, workDirs, inspected>>

alVars == <<stmt, procState, procSys, solvated, minimised, equilibrated, freenrg, fsVars>>

vars == <<mdVars, alVars>>

----------------------------------------------------------------------------
(* Bounds of the model *)

\* engine steps in the protocol's run time
Runtime == 2

\* largest 'number' handed to sampleConfigurations
MaxNumber == 2

\* most steps a minimisation or an equilibration process runs
MaxSteps == 5

----------------------------------------------------------------------------
(* Values *)

\* a notebook variable that no cell has bound yet
Unset == [tag |-> "unset", val |-> <<>>]

\* Python's None as the value of a notebook variable
NoneVal == [tag |-> "None", val |-> <<>>]

List(s) == [tag |-> "list", val |-> s]

\* an optional end of a bound: <<>> is None (unconstrained), <<v>> is the value v
NoBound == <<>>

\* the basin of the notebook: 0.5 <= phi <= 1.5 and -1.5 <= psi <= 0.5 radian
BasinBounds ==
    << [lo |-> <<1>>, hi |-> <<3>>], [lo |-> <<-3>>, hi |-> <<1>>] >>

\* every value unconstrained
FreeBounds ==
    << [lo |-> NoBound, hi |-> NoBound], [lo |-> NoBound, hi |-> NoBound] >>

\* phi constrained as in the basin, psi unconstrained
PhiBounds ==
    << [lo |-> <<1>>, hi |-> <<3>>], [lo |-> NoBound, hi |-> NoBound] >>

BoundsSet == {BasinBounds, FreeBounds, PhiBounds}

\* the <<phi, psi>> values a frame can have: inside the basin, phi outside
\* it, psi outside it
CVPoints == { <<2, 0>>, <<0, 0>>, <<2, 2>> }

----------------------------------------------------------------------------
(* sampleConfigurations *)

InBound(v, b) ==
    /\ (b.lo = NoBound \/ b.lo[1] <= v)
    /\ (b.hi = NoBound \/ v <= b.hi[1])

\* the frames of the time series whose values lie within the bounds in
\* every dimension
MatchingFrames(b, log) ==
    { i \in 1..Len(log) : \A d \in 1..Len(b) : InBound(log[i][d], b[d]) }

\* the non-empty lists of at most n frames out of the set m
Samples(m, n) ==
    UNION { [1..k -> m] : k \in 1..n }

\* a sampleConfigurations that returns two empty lists, not (None, None),
\* when no frame lies within the bounds
sampleConfigurationsEmptyLists(b, n, log) ==
    LET m == MatchingFrames(b, log) IN
    IF m = {}
    THEN { << List(<<>>), List(<<>>) >> }
    ELSE { << List(s), List([i \in 1..Len(s) |-> log[s[i]]]) >> : s \in Samples(m, n) }

\* the (configs, colvars) pairs the call may return
sampleConfigurations(b, n, log) ==
    LET m == MatchingFrames(b, log) IN
    IF m = {}
    THEN { <<NoneVal, NoneVal>> }
    ELSE { << List(s), List([i \in 1..Len(s) |-> log[s[i]]]) >> : s \in Samples(m, n) }

----------------------------------------------------------------------------
(* Values of the alchemical notebook *)

\* the two Gromacs processes of exercise 5.5.3
Procs == {"min", "eq"}

\* a molecular system, told apart by the minimisation and equilibration
\* steps that have been applied to it
System(m, e) == [min |-> m, eq |-> e]

\* a notebook variable that holds no system yet
NoSystem == System(-1, -1)

\* the steps the process p has applied to the system it holds
Steps(p, sys) == IF p = "min" THEN sys.min ELSE sys.eq

\* the system after one more step of the process p
Stepped(p, sys) ==
    IF p = "min" THEN System(sys.min + 1, sys.eq) ELSE System(sys.min, sys.eq + 1)

----------------------------------------------------------------------------
(* Initial state: the protocol has been built, no process exists yet *)

MdInit ==
    /\ runState = "CONFIGURED"
    /\ launch = "none"
    /\ ntomp = 0
    /\ time = 0
    /\ colvar = <<>>
    /\ nHills = 0
    /\ bounds = Unset
    /\ configs = Unset
    /\ colvars = Unset

\* exercise 5.5.3 has not run yet
AlInit ==
    /\ stmt = "solvate"
    /\ procState = [p \in Procs |-> "none"]
    /\ procSys = [p \in Procs |-> NoSystem]
    /\ solvated = NoSystem
    /\ minimised = NoSystem
    /\ equilibrated = NoSystem
    /\ freenrg = NoSystem
    /\ cell = "solvation_somd"
    /\ workDirs = {}
    /\ inspected = {}

Init == MdInit /\ AlInit

----------------------------------------------------------------------------
(* The cells that create and start the process *)

\* process = BSS.Metadynamics.run(molecule.toSystem(), protocol)
RunAutoStart ==
    /\ launch = "none"
    /\ launch' = "started"
    /\ runState' = "RUNNING"
    /\ UNCHANGED <<ntomp, time, colvar, nHills, bounds, configs, colvars>>
    /\ UNCHANGED alVars

\* process = BSS.Metadynamics.run(system, protocol, auto_start=False)
RunNoStart ==
    /\ launch = "none"
    /\ launch' = "created"
    /\ UNCHANGED <<runState, ntomp, time, colvar, nHills, bounds, configs, colvars>>
    /\ UNCHANGED alVars

\* process.setArg("-ntomp", 4)
SetArg ==
    /\ launch = "created"
    /\ launch' = "argset"
    /\ ntomp' = 4
    /\ UNCHANGED <<runState, time, colvar, nHills, bounds, configs, colvars>>
    /\ UNCHANGED alVars

\* a start() that also restarts a process that has stopped
StartAgain ==
    /\ launch # "none"
    /\ runState # "RUNNING"
    /\ launch' = "started"
    /\ runState' = "RUNNING"
    /\ UNCHANGED <<ntomp, time, colvar, nHills, bounds, configs, colvars>>
    /\ UNCHANGED alVars

\* process.start()
Start ==
    /\ launch = "argset"
    /\ launch' = "started"
    /\ runState' = "RUNNING"
    /\ UNCHANGED <<ntomp, time, colvar, nHills, bounds, configs, colvars>>
    /\ UNCHANGED alVars

----------------------------------------------------------------------------
(* The simulation in the background *)

\* one step of the simulation: a frame is recorded and a hill may be deposited
EngineStep ==
    /\ runState = "RUNNING"
    /\ time < Runtime
    /\ \E cv \in CVPoints, dep \in {0, 1} :
          /\ colvar' = Append(colvar, cv)
          /\ nHills' = nHills + dep
    /\ time' = time + 1
    /\ UNCHANGED <<runState, launch, ntomp, bounds, configs, colvars>>
    /\ UNCHANGED alVars

\* the run time of the protocol has passed
EngineFinish ==
    /\ runState = "RUNNING"
    /\ time = Runtime
    /\ runState' = "FINISHED"
    /\ UNCHANGED <<launch, ntomp, time, colvar, nHills, bounds, configs, colvars>>
    /\ UNCHANGED alVars

----------------------------------------------------------------------------
(* The cells that query the process *)

\* bounds = [...]; configs, colvars = process.sampleConfigurations(bounds, n)
SampleConfigurationsCell(b, n) ==
    /\ launch = "started"
    /\ bounds' = List(b)
    /\ \E r \in sampleConfigurations(b, n, colvar) :
          /\ configs' = r[1]
          /\ colvars' = r[2]
    /\ UNCHANGED <<runState, launch, ntomp, time, colvar, nHills>>
    /\ UNCHANGED alVars

----------------------------------------------------------------------------

Next ==
    \/ RunAutoStart
    \/ RunNoStart
    \/ SetArg
    \/ Start
    \/ EngineStep
    \/ EngineFinish
    \/ \E b \in BoundsSet, n \in 1..MaxNumber : SampleConfigurationsCell(b, n)

Spec == Init /\ [][Next]_vars

----------------------------------------------------------------------------
(* The cells of the alchemical notebook that set up free-energy            *)
(* simulations and list directories, in the order of the notebook          *)

\* BSS.FreeEnergy.Solvation(...) or BSS.FreeEnergy.Binding(...) with
\* work_dir=dir: the set-up writes its files under dir
FreeEnergySetup(dir) ==
    workDirs' = workDirs \cup {dir}

\* ! ls path
Ls(path) ==
    inspected' = inspected \cup {path}

\* the cell runs and the next cell of the notebook is up
CellDone(this, next) ==
    /\ cell = this
    /\ cell' = next
    /\ UNCHANGED <<stmt, procState, procSys, solvated, minimised, equilibrated, freenrg>>
    /\ UNCHANGED mdVars

\* freenrg = BSS.FreeEnergy.Solvation(solvated, protocol, work_dir="ethane_methanol_somd")
SolvationSomd ==
    /\ CellDone("solvation_somd", "ls_somd")
    /\ FreeEnergySetup(<<"ethane_methanol_somd">>)
    /\ UNCHANGED inspected

\* ! ls ethane_methanol_somd
LsSomd ==
    /\ CellDone("ls_somd", "ls_somd_free")
    /\ Ls(<<"ethane_methanol_somd">>)
    /\ UNCHANGED workDirs

\* ! ls ethane_methanol_somd/free
LsSomdFree ==
    /\ CellDone("ls_somd_free", "solvation_methanol")
    /\ Ls(<<"ethane_methanol_somd", "free">>)
    /\ UNCHANGED workDirs

\* freenrg_methanol = BSS.FreeEnergy.Solvation(..., work_dir="methanol_ethane")
SolvationMethanol ==
    /\ CellDone("solvation_methanol", "solvation_gromacs")
    /\ FreeEnergySetup(<<"methanol_ethane">>)
    /\ UNCHANGED inspected

\* freenrg_gromacs = BSS.FreeEnergy.Solvation(...,
\*     work_dir="methanol_ethane_gromacs", engine="gromacs")
SolvationGromacs ==
    /\ CellDone("solvation_gromacs", "ls_gromacs")
    /\ FreeEnergySetup(<<"methanol_ethane_gromacs">>)
    /\ UNCHANGED inspected

\* !ls ethane_methanol_gromacs/free/lambda_0.0000
LsGromacs ==
    /\ CellDone("ls_gromacs", "binding_somd")
    /\ Ls(<<"ethane_methanol_gromacs", "free", "lambda_0.0000">>)
    /\ UNCHANGED workDirs

\* freenrg = BSS.FreeEnergy.Binding(solvated, protocol, work_dir="Binding_o_xylene_benzene")
BindingSomd ==
    /\ CellDone("binding_somd", "exercise_5")
    /\ FreeEnergySetup(<<"Binding_o_xylene_benzene">>)
    /\ UNCHANGED inspected

\* freenrg = BSS.FreeEnergy.Binding(solvated, protocol, work_dir="exercise_5", box=...)
BindingExercise5 ==
    /\ CellDone("exercise_5", "exercise_5_3")
    /\ FreeEnergySetup(<<"exercise_5">>)
    /\ UNCHANGED inspected

----------------------------------------------------------------------------
(* Exercise 5.5.3 of the alchemical notebook: its statements in order, and  *)
(* the two Gromacs processes running in the background                      *)

\* solvated = BSS.Solvent.tip3p(molecule=system, box=...)
Solvate ==
    /\ cell = "exercise_5_3"
    /\ stmt = "solvate"
    /\ solvated' = System(0, 0)
    /\ stmt' = "minCreate"
    /\ UNCHANGED <<procState, procSys, minimised, equilibrated, freenrg>>
    /\ UNCHANGED fsVars
    /\ UNCHANGED mdVars

\* BSS.Process.Gromacs(input, protocol): a process holding the input system
CreateProcess(p, input) ==
    /\ procState' = [procState EXCEPT ![p] = "created"]
    /\ procSys' = [procSys EXCEPT ![p] = input]

\* .start(): the process runs in the background
StartProcess(p) ==
    /\ procState[p] = "created"
    /\ procState' = [procState EXCEPT ![p] = "running"]

\* a getSystem that does not wait: it returns the system of a process that
\* is still running
getSystemNoBlock(p) ==
    procState[p] \in {"running", "finished"}

\* .getSystem(block=True) returns once the process has finished
getSystemReturns(p) ==
    procState[p] = "finished"

\* BSS.Process.Gromacs(solvated, BSS.Protocol.Minimisation())
MinCreate ==
    /\ stmt = "minCreate"
    /\ CreateProcess("min", solvated)
    /\ stmt' = "minStart"
    /\ UNCHANGED <<solvated, minimised, equilibrated, freenrg>>
    /\ UNCHANGED fsVars
    /\ UNCHANGED mdVars

\* .start() of the minimisation process
MinStart ==
    /\ stmt = "minStart"
    /\ StartProcess("min")
    /\ stmt' = "minGet"
    /\ UNCHANGED <<procSys, solvated, minimised, equilibrated, freenrg>>
    /\ UNCHANGED fsVars
    /\ UNCHANGED mdVars

\* minimised = (...).getSystem(block=True)
MinGetSystem ==
    /\ stmt = "minGet"
    /\ getSystemReturns("min")
    /\ minimised' = procSys["min"]
    /\ stmt' = "eqCreate"
    /\ UNCHANGED <<procState, procSys, solvated, equilibrated, freenrg>>
    /\ UNCHANGED fsVars
    /\ UNCHANGED mdVars

\* BSS.Process.Gromacs(minimised, BSS.Protocol.Equilibration())
EqCreate ==
    /\ stmt = "eqCreate"
    /\ CreateProcess("eq", minimised)
    /\ stmt' = "eqStart"
    /\ UNCHANGED <<solvated, minimised, equilibrated, freenrg>>
    /\ UNCHANGED fsVars
    /\ UNCHANGED mdVars

\* .start() of the equilibration process
EqStart ==
    /\ stmt = "eqStart"
    /\ StartProcess("eq")
    /\ stmt' = "eqGet"
    /\ UNCHANGED <<procSys, solvated, minimised, equilibrated, freenrg>>
    /\ UNCHANGED fsVars
    /\ UNCHANGED mdVars

\* equilibrated = (...).getSystem(block=True)
EqGetSystem ==
    /\ stmt = "eqGet"
    /\ getSystemReturns("eq")
    /\ equilibrated' = procSys["eq"]
    /\ stmt' = "protocol"
    /\ UNCHANGED <<procState, procSys, solvated, minimised, freenrg>>
    /\ UNCHANGED fsVars
    /\ UNCHANGED mdVars

\* protocol = BSS.Protocol.FreeEnergy(runtime=..., num_lam=9)
FreeEnergyProtocol ==
    /\ stmt = "protocol"
    /\ stmt' = "binding"
    /\ UNCHANGED <<procState, procSys, solvated, minimised, equilibrated, freenrg>>
    /\ UNCHANGED fsVars
    /\ UNCHANGED mdVars

\* freenrg = BSS.FreeEnergy.Binding(equilibrated, protocol, ...)
Binding ==
    /\ stmt = "binding"
    /\ freenrg' = equilibrated
    /\ stmt' = "end"
    /\ FreeEnergySetup(<<"exercise_5_3">>)
    /\ UNCHANGED <<procState, procSys, solvated, minimised, equilibrated>>
    /\ UNCHANGED <<cell, inspected>>
    /\ UNCHANGED mdVars

\* a running process applies one more step to its system
ProcessStep(p) ==
    /\ procState[p] = "running"
    /\ Steps(p, procSys[p]) < MaxSteps
    /\ procSys' = [procSys EXCEPT ![p] = Stepped(p, procSys[p])]
    /\ UNCHANGED <<stmt, procState, solvated, minimised, equilibrated, freenrg>>
    /\ UNCHANGED fsVars
    /\ UNCHANGED mdVars

\* a running process that has taken a step comes to its end
ProcessFinish(p) ==
    /\ procState[p] = "running"
    /\ Steps(p, procSys[p]) >= 1
    /\ procState' = [procState EXCEPT ![p] = "finished"]
    /\ UNCHANGED <<stmt, procSys, solvated, minimised, equilibrated, freenrg>>
    /\ UNCHANGED fsVars
    /\ UNCHANGED mdVars

NextAlch ==
    \/ SolvationSomd
    \/ LsSomd
    \/ LsSomdFree
    \/ SolvationMethanol
    \/ SolvationGromacs
    \/ LsGromacs
    \/ BindingSomd
    \/ BindingExercise5
    \/ Solvate
    \/ MinCreate
    \/ MinStart
    \/ MinGetSystem
    \/ EqCreate
    \/ EqStart
    \/ EqGetSystem
    \/ FreeEnergyProtocol
    \/ Binding
    \/ \E p \in Procs : ProcessStep(p)
    \/ \E p \in Procs : ProcessFinish(p)

SpecAlch == Init /\ [][NextAlch]_vars

----------------------------------------------------------------------------
(* The run of a metadynamics simulation *)

\* the edges the run states may move along; the notebook has no cell that
\* pauses a process, so no step of the model takes the edges through PAUSED
AllowedEdges ==
    { <<"CONFIGURED", "RUNNING">>, <<"RUNNING", "PAUSED">>,
      <<"PAUSED", "RUNNING">>, <<"RUNNING", "FINISHED">>,
      <<"PAUSED", "FINISHED">> }

RunStep ==
    /\ runState' # runState => <<runState, runState'>> \in AllowedEdges
    /\ nHills' # nHills => runState = "RUNNING" /\ runState' = "RUNNING"
    /\ launch' \in {"none", "created", "argset"} => runState' = "CONFIGURED"

----------------------------------------------------------------------------
(* sampleConfigurations on a region that was not sampled *)

\* a step in which the sampleConfigurations cell bound its variables anew
SampleStep ==
    \/ bounds' # bounds
    \/ configs' # configs
    \/ colvars' # colvars

\* C6: a sampleConfigurations call whose bounds no recorded frame satisfies
\* binds configs and colvars to None, and leaves the run state, the time
\* series and the hills as they were: the call ends normally with the
\* (None, None) pair.
C6_EmptyRegionReturnsNone ==
    [][(SampleStep /\ MatchingFrames(bounds'.val, colvar) = {})
          => /\ configs' = NoneVal
             /\ colvars' = NoneVal
             /\ runState' = runState
             /\ colvar' = colvar
             /\ nHills' = nHills]_vars

\* frames have been recorded, none of them within the bounds of the last
\* call, and the call returned (None, None)
C6_Witness ==
    /\ bounds # Unset
    /\ colvar # <<>>
    /\ MatchingFrames(bounds.val, colvar) = {}
    /\ configs = NoneVal
    /\ colvars = NoneVal

----------------------------------------------------------------------------
(* The minimise -> equilibrate -> binding chain *)

\* C16: getSystem(block=True) returns only after its process has finished,
\* with the system that process ended on: the equilibration process exists
\* only once the minimisation process has finished, and the binding
\* free-energy set-up holds only the system of a finished equilibration.
C16_ChainWaitsForProcesses ==
    /\ procState["eq"] # "none" => procState["min"] = "finished"
    /\ minimised # NoSystem =>
          procState["min"] = "finished" /\ minimised = procSys["min"]
    /\ equilibrated # NoSystem =>
          procState["eq"] = "finished" /\ equilibrated = procSys["eq"]
    /\ freenrg # NoSystem =>
          procState["eq"] = "finished" /\ freenrg = procSys["eq"]

\* the set-up has received a system that was minimised and equilibrated
\* for more than one step each
C16_Witness ==
    /\ stmt = "end"
    /\ freenrg # NoSystem
    /\ freenrg.min > 1
    /\ freenrg.eq > 1

----------------------------------------------------------------------------
(* The directories the alchemical notebook lists *)

\* the directory path is the directory dir or lies under it
Under(path, dir) ==
    /\ Len(path) >= Len(dir)
    /\ SubSeq(path, 1, Len(dir)) = dir

\* C22: every directory an "ls" cell has listed is the work_dir, or lies
\* under the work_dir, of a free-energy set-up call of an earlier cell.
C22_InspectedUnderWorkDir ==
    \A path \in inspected : \E dir \in workDirs : Under(path, dir)

====
